---- MODULE Spec2Model ----
(***************************************************************************)
(* Windowed, idempotent notification pipeline of the OnCore "procedure     *)
(* alternatives" jobs: scripts/oncore_proc_alt_alert.py (hourly) and       *)
(* scripts/oncore_proc_alt_weekly_reminder.py (weekly).                    *)
(*                                                                         *)
(* Time is counted in ticks of 1/TicksPerSec second, so that the           *)
(* truncation to whole seconds done by isoformat(timespec="seconds") and   *)
(* strftime("%Y-%m-%d %H:%M:%S") is visible.                               *)
(***************************************************************************)
EXTENDS Integers, Sequences, FiniteSets, TLC

\* ------------------------------------------------------------------ bounds
TicksPerSec == 2
MaxTicks == 2
MaxBigTicks == 1
MaxRuns == 2
MaxRows == 2
SmallKeep == 1

\* ------------------------------------------------------- program constants
LOOKBACK_HOURS == 1
SAFETY_LAG_MIN == 10
OVERLAP_MIN == 3
HOURLY_STALE_HOURS == 2
WEEKLY_STALE_HOURS == 4
MAX_KEEP == 20000
REMINDER_INTERVAL_DAYS == 7

Invocations == {1, 2}
JOBS == {"hourly", "weekly"}
VISITS == {100}
EMAILS == {"", "a@x.com"}

\* the group key pandas makes of a NULL modified_user_email (None in the
\* DataFrame): groupby(dropna=False) yields float NaN
NULL_EMAIL == "NaN"

\* the address of EMAILS as another screen of the source system stores it: in
\* capitals and with a trailing blank
EMAIL_SPELLED == "A@X.COM "

\* str.strip().lower(), and LOWER(TRIM(...)) in SQL, over the addresses above
LowerTrim(e) == IF e \in {EMAIL_SPELLED, "A@X.COM"} THEN "a@x.com" ELSE e

\* timedelta(minutes=m), timedelta(hours=h) in ticks
Minutes(m) == m * 60 * TicksPerSec
Hours(h) == h * 3600 * TicksPerSec
Days(d) == Hours(24 * d)

\* the invocation time of the first scheduled run: 10:00:00 of day 0
Now0 == Hours(10)

\* "last_max_timestamp" not in state
NoMark == -1

\* pd.NaT: MIN / MAX over no event
NaT == -1

Min2(a, b) == IF a <= b THEN a ELSE b
SetMax(S) == CHOOSE x \in S : \A y \in S : y <= x

\* dt.isoformat(timespec="seconds") / dt.strftime("%Y-%m-%d %H:%M:%S"):
\* the sub-second part is dropped
TruncSec(t) == t - (t % TicksPerSec)

VARIABLES
    job,        \* which script the scheduler fires in this deployment
    dev_mode,   \* ENVIRONMENT == "dev"
    cfg,        \* PROCALT_SAFETY_LAG_MIN, PROCALT_OVERLAP_MIN, PROCALT_LOOKBACK_HOURS
    now,        \* datetime.now()
    ticks,      \* number of small clock advances so far
    bigticks,   \* number of staleness-sized clock advances so far
    lock,       \* <LOG_DIR>/<JOB_CODE>/locks/job.lock
    dirExists,  \* the directory of state.json exists, per state_path
    stateFile,  \* state.json: last_max_timestamp or NoMark, per state_path
    keysFile,   \* sent_keys.json: the set of keys, per state_path
    db,         \* committed rows of the view
    inserted,   \* number of rows that entered the view so far
    active,     \* the invocation slots the scheduler uses
    emails,     \* history: notification emails handed to SMTP
    alerts,     \* history: runs for which a failure alert email was sent
    runSeq,     \* number of runs that acquired the lock so far
    lastEnded,  \* history: the run that terminated most recently (0: none)
    killed,     \* history: the runs that were killed
    audit,      \* the NOTIFICATION_AUDIT table: the events recorded so far
    reminders,  \* history: reminder emails handed to SMTP by the weekly job
    inv,        \* per invocation: position in main() and its local variables
    dash        \* the activation-dashboard script: its inputs, position and locals

filevars == <<dirExists, stateFile, keysFile>>
\* what no step of the procedure-alternative jobs changes
envvars == <<job, dev_mode, cfg, active, dash>>
dbvars == <<db, inserted>>
clockvars == <<now, ticks, bigticks>>
auditvars == <<audit, reminders>>
histvars == <<emails, alerts, runSeq, lastEnded, killed, auditvars>>
vars == <<envvars, clockvars, lock, filevars, dbvars, histvars, inv>>

\* ---------------------------------------------------------------- helpers
\* variant: one state directory for both environments
state_path_Shared(dev) == "prod"

\* state_path(dev_mode): separate file for dev vs prod
state_path(dev) == IF dev THEN "dev" ELSE "prod"
StatePaths == {"dev", "prod"}

StaleHours == IF job = "hourly" THEN HOURLY_STALE_HOURS ELSE WEEKLY_STALE_HOURS

NoLock == [exists |-> FALSE, mtime |-> 0, owner |-> 0]

\* the guard against a non-positive safety lag left out
UntilOf_NoGuard(t0, lag_min) == t0 - Minutes(lag_min)

\* until = t0 - lag; if until >= t0: until = t0 - 1 minute
UntilOf(t0, lag_min) ==
    IF t0 - Minutes(lag_min) >= t0 THEN t0 - Minutes(1) ELSE t0 - Minutes(lag_min)

\* since_raw: the persisted watermark, else until - lookback
SinceRawOf(st, unt, lookback_hours) ==
    IF st # NoMark THEN st ELSE unt - Hours(lookback_hours)

\* variant: the overlap is not subtracted
SinceOf_NoOverlap(since_raw, overlap_min) == since_raw

SinceOf(since_raw, overlap_min) == since_raw - Minutes(overlap_min)

\* build_sql: modified_date > since AND modified_date <= until, both bounds
\* printed by _fmt_ts at whole seconds
QueryRows(rows, s, u) ==
    {r \in rows : r.modified_date > TruncSec(s) /\ r.modified_date <= TruncSec(u)}

\* the grouping key (visit_id, modified_user_email, modified_date)
GroupKey(r) == <<r.visit_id, r.modified_user_email, r.modified_date>>
Groups(rows) == {GroupKey(r) : r \in rows}

\* order of the string keys used by groupby(sort=True)
EmailOrd(e) ==
    IF e = "" THEN 0 ELSE IF e = EMAIL_SPELLED THEN 1 ELSE IF e = NULL_EMAIL THEN 3 ELSE 2
GroupLess(a, b) ==
    \/ a[1] < b[1]
    \/ a[1] = b[1] /\ EmailOrd(a[2]) < EmailOrd(b[2])
    \/ a[1] = b[1] /\ a[2] = b[2] /\ a[3] < b[3]

RECURSIVE GroupSeq(_)
GroupSeq(G) ==
    IF G = {} THEN <<>>
    ELSE LET g == CHOOSE x \in G : \A y \in G \ {x} : GroupLess(x, y)
         IN <<g>> \o GroupSeq(G \ {g})

\* "not modifier": true of the empty string, false of NaN
IsFalsy(e) == e = ""

\* dedupe_key = f"{visit_id}|{modifier or 'dev'}|{mod_dt.isoformat(timespec='seconds')}"
DedupeKey(g) == <<g[1], IF IsFalsy(g[2]) THEN "dev" ELSE g[2], TruncSec(g[3])>>

\* max taken where min is meant
NewMark_Max(rows, unt) ==
    LET max_seen == SetMax({r.modified_date : r \in rows})
    IN TruncSec(IF max_seen >= unt THEN max_seen ELSE unt)

\* new_mark = min(max_seen, until), written with isoformat(timespec="seconds")
NewMark(rows, unt) == TruncSec(Min2(SetMax({r.modified_date : r \in rows}), unt))

\* variant: on an empty result the watermark is advanced to the invocation
\* time instead of until
EmptyMark_Now(unt) == TruncSec(unt + Minutes(SAFETY_LAG_MIN))

\* state["last_max_timestamp"] = until.isoformat(timespec="seconds")
EmptyMark(unt) == TruncSec(unt)

\* variant: the list of keys is written whole
SavedKeySets_NoCap(keys, max_keep) == {keys}

\* save_sent_keys: list(keys)[-max_keep:]; the iteration order of a set of
\* strings is not defined, so any max_keep of the keys may be the ones kept
SavedKeySets(keys, max_keep) ==
    IF Cardinality(keys) <= max_keep THEN {keys}
    ELSE {K \in SUBSET keys : Cardinality(K) = max_keep}

\* ------------------------------------------------------------ initial state
\* an invocation that is not running: no local variable is live
Idle(out) ==
    [pc |-> "idle", run |-> 0, prev |-> 0, stale |-> 0,
     t0 |-> 0, until |-> 0, since |-> 0,
     state |-> NoMark, df |-> {}, queue |-> <<>>, sent_keys |-> {},
     sent_rows |-> 0, new_mark |-> NoMark, hist |-> {}, now_ts |-> 0,
     exc |-> FALSE, err |-> "none",
     outcome |-> out]

\* the settings when no PROCALT_* variable is set
DefaultCfg == [lag |-> SAFETY_LAG_MIN, overlap |-> OVERLAP_MIN, lookback |-> LOOKBACK_HOURS]

\* a fresh deployment: no lock, no state file, no sent-key file; the state
\* directory may or may not have been created by the installer
InitJobs(jobs, slots, dbs, cfgs, audits, sent) ==
    /\ job \in jobs
    /\ cfg \in cfgs
    /\ active = slots
    /\ dev_mode \in BOOLEAN
    /\ now = Now0
    /\ ticks = 0
    /\ bigticks = 0
    /\ lock = NoLock
    /\ \E d \in BOOLEAN : dirExists = [s \in StatePaths |-> d]
    /\ stateFile = [s \in StatePaths |-> NoMark]
    /\ keysFile = [s \in StatePaths |-> {}]
    /\ db \in dbs
    /\ inserted = 0
    /\ emails \in sent
    /\ audit \in audits
    /\ reminders = {}
    /\ alerts = {}
    /\ runSeq = 0
    /\ lastEnded = 0
    /\ killed = {}
    /\ inv = [p \in Invocations |-> Idle("none")]

\* the activation-dashboard script before main(): the cells of the email
\* columns of prod_analytics.ycci_activation and the content of email_list.csv
DashStart(cells, lead) ==
    [pc |-> "start", cells |-> cells, lead |-> lead, email_list |-> <<>>,
     queue |-> <<>>, sent_mail |-> <<>>, attempts |-> <<>>, log |-> {}]

\* email_list.csv cannot be read
LeadMissing == [ok |-> FALSE, emails |-> {}]

\* the dashboard script is not scheduled
InitCore(jobs, slots, dbs, cfgs, audits, sent) ==
    /\ InitJobs(jobs, slots, dbs, cfgs, audits, sent)
    /\ dash = DashStart({}, LeadMissing)

\* nothing has been sent or recorded yet
InitWith(jobs, slots, dbs, cfgs) == InitCore(jobs, slots, dbs, cfgs, {{}}, {{}})

\* the hourly job, fired when the previous invocation is over
Init == InitWith({"hourly"}, {1}, {{}}, {DefaultCfg})

\* a row modified a little more than the safety lag ago
Row0 == [visit_id |-> 100, modified_user_email |-> "a@x.com",
         modified_date |-> Now0 - Minutes(SAFETY_LAG_MIN + 1),
         age |-> Minutes(SAFETY_LAG_MIN + 1)]

\* settings an operator may put in the environment
LagValues == {-5, 0, SAFETY_LAG_MIN}
OverlapValues == {-1, 0, OVERLAP_MIN}
LookbackValues == {-1, 0, LOOKBACK_HOURS}
Cfgs == [lag : LagValues, overlap : OverlapValues, lookback : LookbackValues]

\* the hourly job under any of these settings, one run after the other
InitWindow == InitWith({"hourly"}, {1}, {{}, {Row0}}, Cfgs)

\* rows without a recipient: the empty string and NULL
RowEmpty == [Row0 EXCEPT !.modified_user_email = ""]
RowNull == [Row0 EXCEPT !.modified_user_email = NULL_EMAIL]
Row1 == [visit_id |-> 100, modified_user_email |-> "a@x.com",
         modified_date |-> Now0 - Minutes(SAFETY_LAG_MIN + 2),
         age |-> Minutes(SAFETY_LAG_MIN + 2)]

\* the hourly job over a view that holds any of these rows
InitRecipient ==
    InitWith({"hourly"}, {1}, SUBSET {RowEmpty, RowNull, Row0, Row1}, {DefaultCfg})

\* either job, fired again while the previous invocation may still run
InitLock == InitWith(JOBS, Invocations, {{}, {Row0}}, {DefaultCfg})

\* the hourly job notified the modifier of Row0 an instant less than a
\* reminder interval ago
Email0 == [key |-> DedupeKey(GroupKey(Row0)), run |-> 0, prev |-> 0,
           at |-> Now0 - Days(REMINDER_INTERVAL_DAYS) + 1]

\* audit rows found in the table: an INITIAL_ALERT for that notification, and
\* a WEEKLY_REMINDER of the same age
Initial0 == [event_type |-> "INITIAL_ALERT", visit_id |-> Row0.visit_id,
             modified_user_email |-> Row0.modified_user_email,
             sent_at |-> Email0.at, job_run_id |-> 0]
Weekly0 == [Initial0 EXCEPT !.event_type = "WEEKLY_REMINDER"]

\* the weekly job over a view that holds Row0, with or without the hourly
\* notification and with any of the audit rows
InitWeekly ==
    InitCore({"weekly"}, {1}, {{Row0}, {Row0, RowEmpty}}, {DefaultCfg},
             SUBSET {Initial0, Weekly0}, {{}, {Email0}})

\* the view holds the rows of one visit under both spellings of the address
RowSpelled == [Row1 EXCEPT !.modified_user_email = EMAIL_SPELLED]

InitSpelling ==
    InitCore({"weekly"}, {1}, {{Row0, RowSpelled}}, {DefaultCfg},
             SUBSET {Initial0, Weekly0}, {{Email0}})

\* cells of the four email columns: one address, the same address in another
\* spelling, two addresses in one cell, and a cell that holds no address
DashCells == {"a@x.com", EMAIL_SPELLED, "a@x.com; b@y.org", "n/a"}

\* the leadership rows of email_list.csv
DashLeads ==
    {LeadMissing} \cup {[ok |-> TRUE, emails |-> E] : E \in SUBSET {"c@z.edu", EMAIL_SPELLED}}

\* only the dashboard script is scheduled
InitDash ==
    /\ InitJobs({"dashboard"}, {}, {{}}, {DefaultCfg}, {{}}, {{}})
    /\ \E C \in SUBSET DashCells, L \in DashLeads : dash = DashStart(C, L)

\* ------------------------------------------------------------- environment
\* The clock is read by the lock check, the lock write, the window computation
\* and the stamping of a row; the view is read by the queries.  A change of
\* the clock or of the view while no invocation is about to read either is
\* indistinguishable from the same change made just before the next read, so
\* the environment moves only when all invocations are idle or one of them
\* is about to read.
ReadingPcs == {"stat", "write_lock", "window", "query", "wquery", "whist"}
EnvObserved ==
    \/ \A p \in active : inv[p].pc = "idle"
    \/ \E p \in active : inv[p].pc \in ReadingPcs

SmallSteps == {1, Minutes(SAFETY_LAG_MIN + 1)}

\* the clock advances by half a second or by a little more than the safety lag
TickSmall ==
    /\ EnvObserved
    /\ ticks < MaxTicks
    /\ \E d \in SmallSteps : now' = now + d
    /\ ticks' = ticks + 1
    /\ UNCHANGED <<envvars, bigticks, lock, filevars, dbvars, histvars, inv>>

\* a pause just short of the staleness threshold of the job, or just as long
BigSteps == {Hours(StaleHours) - 1, Hours(StaleHours)}

\* the clock advances by the staleness threshold of the job
TickBig ==
    /\ EnvObserved
    /\ bigticks < MaxBigTicks
    /\ \E d \in BigSteps : now' = now + d
    /\ bigticks' = bigticks + 1
    /\ UNCHANGED <<envvars, ticks, lock, filevars, dbvars, histvars, inv>>

\* the pauses between weekly invocations: an instant, and a reminder
\* interval less an instant or in full
WeekSteps == {1, Days(REMINDER_INTERVAL_DAYS) - 1, Days(REMINDER_INTERVAL_DAYS)}

\* the clock advances to the next weekly invocation
TickWeek ==
    /\ EnvObserved
    /\ ticks < MaxTicks
    /\ \E d \in WeekSteps : now' = now + d
    /\ ticks' = ticks + 1
    /\ UNCHANGED <<envvars, bigticks, lock, filevars, dbvars, histvars, inv>>

\* how long the writing transaction of a row may take to commit
RowAges == {0, Minutes(SAFETY_LAG_MIN + 1)}

\* a user modifies a visit: the row, stamped with the time of the
\* modification, becomes visible in the view when its transaction commits,
\* some time (one of ages) later; the field age records that delay
Insert(ages) ==
    /\ EnvObserved
    /\ inserted < MaxRows
    /\ \E v \in VISITS, e \in EMAILS, age \in ages :
          /\ \A r \in db : GroupKey(r) # <<v, e, now - age>>
          /\ db' = db \cup {[visit_id |-> v, modified_user_email |-> e,
                             modified_date |-> now - age, age |-> age]}
    /\ inserted' = inserted + 1
    /\ UNCHANGED <<envvars, clockvars, lock, filevars, histvars, inv>>

InsertRow == Insert(RowAges)

\* commits that take exactly the safety lag, and longer than the safety lag
\* and the overlap together
LateAges == {Minutes(SAFETY_LAG_MIN), Minutes(SAFETY_LAG_MIN + OVERLAP_MIN + 1)}

InsertLate == Insert(LateAges)

\* between two runs the job is started with the other command line: with
\* --dev (or ENVIRONMENT=dev) instead of without, or the reverse
SwitchMode ==
    /\ \A p \in Invocations : inv[p].pc = "idle"
    /\ runSeq >= 1
    /\ runSeq < MaxRuns
    /\ dev_mode' = ~dev_mode
    /\ UNCHANGED <<job, cfg, active, dash, clockvars, lock, filevars, dbvars, histvars, inv>>

\* the procedure alternative is selected: the row leaves the view
ResolveRow ==
    /\ EnvObserved
    /\ \E r \in db : db' = db \ {r}
    /\ UNCHANGED <<envvars, clockvars, lock, filevars, inserted, histvars, inv>>

\* ---------------------------------------------------------------- run lock
Set(p, f) == inv' = [inv EXCEPT ![p] = f]

\* main() returns or raises: the invocation is over; err is the exception
\* that leaves main()
End(p, out) ==
    /\ Set(p, [Idle(out) EXCEPT !.err = IF out = "raised" THEN inv[p].err ELSE "none"])
    /\ lastEnded' = IF inv[p].run > 0 THEN inv[p].run ELSE lastEnded

\* an exception is raised inside the try block
Raise(p, cause) == Set(p, [inv[p] EXCEPT !.pc = "except", !.exc = TRUE, !.err = cause])

\* variant: an existing marker always makes the run skip, whatever its age
LockExists_NoTakeover(p) ==
    /\ inv[p].pc = "idle"
    /\ IF lock.exists
       THEN Set(p, Idle("skipped"))
       ELSE Set(p, [Idle("running") EXCEPT !.pc = "write_lock", !.prev = lastEnded])
    /\ UNCHANGED <<envvars, clockvars, lock, filevars, dbvars, histvars>>

\* if lock_path.exists():
LockExists(p) ==
    /\ inv[p].pc = "idle"
    /\ Set(p, [Idle("running") EXCEPT !.pc = IF lock.exists THEN "stat" ELSE "write_lock",
                                      !.prev = lastEnded])
    /\ UNCHANGED <<envvars, clockvars, lock, filevars, dbvars, histvars>>

\* variant: the skip returns from inside the try block, so that the finally
\* clause deletes the marker of the run that holds the lock
LockStat_SkipUnlinks(p) ==
    /\ inv[p].pc = "stat"
    /\ IF ~lock.exists THEN End(p, "raised") /\ UNCHANGED lock
       ELSE IF now - lock.mtime < Hours(StaleHours)
            THEN End(p, "skipped") /\ lock' = NoLock
       ELSE /\ Set(p, [inv[p] EXCEPT !.pc = "write_lock", !.stale = lock.owner])
            /\ UNCHANGED <<lastEnded, lock>>
    /\ UNCHANGED <<envvars, clockvars, filevars, dbvars, emails, alerts, runSeq, killed, auditvars>>

\* mtime = lock_path.stat().st_mtime; fresh: return; stale: replace.
\* stat() of a marker deleted since exists() raises outside the try block.
LockStat(p) ==
    /\ inv[p].pc = "stat"
    /\ IF ~lock.exists THEN End(p, "raised")
       ELSE IF now - lock.mtime < Hours(StaleHours) THEN End(p, "skipped")
       ELSE Set(p, [inv[p] EXCEPT !.pc = "write_lock", !.stale = lock.owner]) /\ UNCHANGED lastEnded
    /\ UNCHANGED <<envvars, clockvars, lock, filevars, dbvars, emails, alerts, runSeq, killed, auditvars>>

\* variant: a marker that is already there keeps its modification time
LockWrite_KeepsStamp(p) ==
    /\ inv[p].pc = "write_lock"
    /\ runSeq < MaxRuns
    /\ runSeq' = runSeq + 1
    /\ lock' = [exists |-> TRUE,
                mtime |-> IF lock.exists THEN lock.mtime ELSE now,
                owner |-> runSeq + 1]
    /\ Set(p, [inv[p] EXCEPT !.pc = IF job = "hourly" THEN "window" ELSE "wquery",
                             !.run = runSeq + 1])
    /\ UNCHANGED <<envvars, clockvars, filevars, dbvars, emails, alerts, lastEnded, killed, auditvars>>

\* lock_path.write_text(datetime.now().isoformat(timespec="seconds"))
LockWrite(p) ==
    /\ inv[p].pc = "write_lock"
    /\ runSeq < MaxRuns
    /\ runSeq' = runSeq + 1
    /\ lock' = [exists |-> TRUE, mtime |-> now, owner |-> runSeq + 1]
    /\ Set(p, [inv[p] EXCEPT !.pc = IF job = "hourly" THEN "window" ELSE "wquery",
                             !.run = runSeq + 1])
    /\ UNCHANGED <<envvars, clockvars, filevars, dbvars, emails, alerts, lastEnded, killed, auditvars>>

\* finally: lock_path.unlink(missing_ok=True); then main returns or re-raises
ReleaseLock(p) ==
    /\ inv[p].pc = "finally"
    /\ lock' = NoLock
    /\ End(p, IF inv[p].exc THEN "raised" ELSE "ok")
    /\ UNCHANGED <<envvars, clockvars, filevars, dbvars, emails, alerts, runSeq, killed, auditvars>>

\* variant: a failure of the reporter replaces the exception being reported
FailureAlert_Masks(p) ==
    /\ inv[p].pc = "except"
    /\ \E delivered \in BOOLEAN :
          /\ alerts' = IF delivered THEN alerts \cup {inv[p].run} ELSE alerts
          /\ Set(p, [inv[p] EXCEPT !.pc = "finally",
                                   !.err = IF delivered THEN @ ELSE "alert"])
    /\ UNCHANGED <<envvars, clockvars, lock, filevars, dbvars, emails, runSeq, lastEnded, killed, auditvars>>

\* except: send_failure_alert (which never raises), then re-raise
FailureAlert(p) ==
    /\ inv[p].pc = "except"
    /\ \E delivered \in BOOLEAN :
          alerts' = IF delivered THEN alerts \cup {inv[p].run} ELSE alerts
    /\ Set(p, [inv[p] EXCEPT !.pc = "finally"])
    /\ UNCHANGED <<envvars, clockvars, lock, filevars, dbvars, emails, runSeq, lastEnded, killed, auditvars>>

\* the process is killed while it holds the lock: no cleanup runs
Kill(p) ==
    /\ inv[p].pc \notin {"idle", "stat", "write_lock"}
    /\ End(p, "killed")
    /\ killed' = killed \cup {inv[p].run}
    /\ UNCHANGED <<envvars, clockvars, lock, filevars, dbvars, emails, alerts, runSeq, auditvars>>

\* send_email: in prod to_email.split(';') raises on a value that is not a
\* string; in dev to_email is not read
SendRejects(to_email) == to_email = NULL_EMAIL /\ ~dev_mode

\* ----------------------------------------------------- hourly job: main()
spath == state_path(dev_mode)

\* now = datetime.now(); until; state = load_state(s_path); since
ReadWindow(p) ==
    /\ inv[p].pc = "window"
    /\ LET unt == UntilOf(now, cfg.lag)
           st == stateFile[spath]
       IN Set(p, [inv[p] EXCEPT !.pc = "query", !.t0 = now, !.until = unt, !.state = st,
                    !.since = SinceOf(SinceRawOf(st, unt, cfg.lookback), cfg.overlap)])
    /\ UNCHANGED <<envvars, clockvars, lock, filevars, dbvars, histvars>>

\* df = query_database(build_sql(since, until)); the empty test; on rows
\* sent_keys = load_sent_keys(s_path) and the groupby
Query(p) ==
    /\ inv[p].pc = "query"
    /\ \/ Raise(p, "query")
       \/ LET rows == QueryRows(db, inv[p].since, inv[p].until)
          IN IF rows = {}
             THEN Set(p, [inv[p] EXCEPT !.pc = "empty_save"])
             ELSE Set(p, [inv[p] EXCEPT !.pc = "loop", !.df = rows,
                            !.sent_keys = keysFile[spath],
                            !.queue = GroupSeq(Groups(rows))])
    /\ UNCHANGED <<envvars, clockvars, lock, filevars, dbvars, histvars>>

\* variant: the early return on an empty result leaves without the finally
\* clause
SaveStateEmpty_NoFinally(p) ==
    /\ inv[p].pc = "empty_save"
    /\ \/ Raise(p, "persist") /\ UNCHANGED <<filevars, lastEnded>>
       \/ /\ dirExists' = [dirExists EXCEPT ![spath] = TRUE]
          /\ stateFile' = [stateFile EXCEPT ![spath] = EmptyMark(inv[p].until)]
          /\ End(p, "ok")
          /\ UNCHANGED keysFile
    /\ UNCHANGED <<envvars, clockvars, lock, dbvars, emails, alerts, runSeq, killed, auditvars>>

\* no rows: state["last_max_timestamp"] = until; save_state; return
SaveStateEmpty(p) ==
    /\ inv[p].pc = "empty_save"
    /\ \/ Raise(p, "persist") /\ UNCHANGED filevars
       \/ /\ dirExists' = [dirExists EXCEPT ![spath] = TRUE]
          /\ stateFile' = [stateFile EXCEPT ![spath] = EmptyMark(inv[p].until)]
          /\ Set(p, [inv[p] EXCEPT !.pc = "finally", !.new_mark = EmptyMark(inv[p].until)])
          /\ UNCHANGED keysFile
    /\ UNCHANGED <<envvars, clockvars, lock, dbvars, histvars>>

\* variant: the keys collected so far are written when a send fails
GroupStep_SavesOnFail(p) ==
    /\ inv[p].pc = "loop"
    /\ inv[p].queue # <<>>
    /\ LET g == Head(inv[p].queue)
           key == DedupeKey(g)
           next == [inv[p] EXCEPT !.queue = Tail(inv[p].queue)]
       IN IF IsFalsy(g[2]) /\ ~dev_mode
          THEN Set(p, next) /\ UNCHANGED <<emails, filevars>>
          ELSE IF key \in inv[p].sent_keys
          THEN Set(p, next) /\ UNCHANGED <<emails, filevars>>
          ELSE \/ /\ Raise(p, "send")
                  /\ keysFile' = [keysFile EXCEPT ![spath] = inv[p].sent_keys]
                  /\ UNCHANGED <<emails, dirExists, stateFile>>
               \/ /\ ~SendRejects(g[2])
                  /\ emails' = emails \cup
                        {[key |-> key, run |-> inv[p].run, prev |-> inv[p].prev, at |-> now]}
                  /\ Set(p, [next EXCEPT !.sent_keys = @ \cup {key},
                                         !.sent_rows = @ + 1])
                  /\ UNCHANGED filevars
    /\ UNCHANGED <<envvars, clockvars, lock, dbvars, alerts, runSeq, lastEnded, killed, auditvars>>

\* variant: a group skipped for its empty recipient still has its key added
GroupStep_KeyOnSkip(p) ==
    /\ inv[p].pc = "loop"
    /\ inv[p].queue # <<>>
    /\ LET g == Head(inv[p].queue)
           key == DedupeKey(g)
           next == [inv[p] EXCEPT !.queue = Tail(inv[p].queue)]
       IN IF IsFalsy(g[2]) /\ ~dev_mode
          THEN Set(p, [next EXCEPT !.sent_keys = @ \cup {key}]) /\ UNCHANGED emails
          ELSE IF key \in inv[p].sent_keys
          THEN Set(p, next) /\ UNCHANGED emails
          ELSE \/ Raise(p, "send") /\ UNCHANGED emails
               \/ /\ ~SendRejects(g[2])
                  /\ emails' = emails \cup
                        {[key |-> key, run |-> inv[p].run, prev |-> inv[p].prev, at |-> now]}
                  /\ Set(p, [next EXCEPT !.sent_keys = @ \cup {key},
                                         !.sent_rows = @ + 1])
    /\ UNCHANGED <<envvars, clockvars, lock, filevars, dbvars, alerts, runSeq, lastEnded, killed, auditvars>>

\* one iteration of the for loop over the groups
GroupStep(p) ==
    /\ inv[p].pc = "loop"
    /\ inv[p].queue # <<>>
    /\ LET g == Head(inv[p].queue)
           key == DedupeKey(g)
           next == [inv[p] EXCEPT !.queue = Tail(inv[p].queue)]
       IN IF IsFalsy(g[2]) /\ ~dev_mode
          THEN Set(p, next) /\ UNCHANGED emails
          ELSE IF key \in inv[p].sent_keys
          THEN Set(p, next) /\ UNCHANGED emails
          ELSE \/ Raise(p, "send") /\ UNCHANGED emails
               \/ /\ ~SendRejects(g[2])
                  /\ emails' = emails \cup
                        {[key |-> key, run |-> inv[p].run, prev |-> inv[p].prev, at |-> now]}
                  /\ Set(p, [next EXCEPT !.sent_keys = @ \cup {key},
                                         !.sent_rows = @ + 1])
    /\ UNCHANGED <<envvars, clockvars, lock, filevars, dbvars, alerts, runSeq, lastEnded, killed, auditvars>>

\* variant: the watermark is written together with the keys, before the CSV
SaveSentKeysN_WithMark(p, max_keep) ==
    /\ inv[p].pc = "loop"
    /\ inv[p].queue = <<>>
    /\ \/ Raise(p, "persist") /\ UNCHANGED filevars
       \/ /\ \E K \in SavedKeySets(inv[p].sent_keys, max_keep) :
                keysFile' = [keysFile EXCEPT ![spath] = K]
          /\ dirExists' = [dirExists EXCEPT ![spath] = TRUE]
          /\ stateFile' = [stateFile EXCEPT ![spath] = NewMark(inv[p].df, inv[p].until)]
          /\ Set(p, [inv[p] EXCEPT !.pc = "csv"])
    /\ UNCHANGED <<envvars, clockvars, lock, dbvars, histvars>>

\* save_sent_keys(s_path, keys, max_keep): write_text without mkdir
SaveSentKeysN(p, max_keep) ==
    /\ inv[p].pc = "loop"
    /\ inv[p].queue = <<>>
    /\ IF ~dirExists[spath]
       THEN Raise(p, "persist") /\ UNCHANGED filevars
       ELSE \/ Raise(p, "persist") /\ UNCHANGED filevars
            \/ /\ \E K \in SavedKeySets(inv[p].sent_keys, max_keep) :
                     keysFile' = [keysFile EXCEPT ![spath] = K]
               /\ Set(p, [inv[p] EXCEPT !.pc = "csv"])
               /\ UNCHANGED <<dirExists, stateFile>>
    /\ UNCHANGED <<envvars, clockvars, lock, dbvars, histvars>>

\* save_sent_keys(s_path, sent_keys): max_keep has its default
SaveSentKeys(p) == SaveSentKeysN(p, MAX_KEEP)

\* if sent_rows: append_sent_records(...)
AppendCsv(p) ==
    /\ inv[p].pc = "csv"
    /\ \/ inv[p].sent_rows > 0 /\ Raise(p, "persist")
       \/ Set(p, [inv[p] EXCEPT !.pc = "save_state"])
    /\ UNCHANGED <<envvars, clockvars, lock, filevars, dbvars, histvars>>

\* new_mark = min(max_seen, until); save_state
SaveState(p) ==
    /\ inv[p].pc = "save_state"
    /\ \/ Raise(p, "persist") /\ UNCHANGED filevars
       \/ /\ dirExists' = [dirExists EXCEPT ![spath] = TRUE]
          /\ stateFile' = [stateFile EXCEPT ![spath] = NewMark(inv[p].df, inv[p].until)]
          /\ Set(p, [inv[p] EXCEPT !.pc = "finally",
                       !.new_mark = NewMark(inv[p].df, inv[p].until)])
          /\ UNCHANGED keysFile
    /\ UNCHANGED <<envvars, clockvars, lock, dbvars, histvars>>

\* ----------------------------------------------------- weekly job: main()
\* df = query_database(build_sql()): all unresolved rows, no window
WeeklyQuery(p) ==
    /\ inv[p].pc = "wquery"
    /\ \/ Raise(p, "query")
       \/ LET rows == db
          IN IF rows = {}
             THEN Set(p, [inv[p] EXCEPT !.pc = "finally"])
             ELSE Set(p, [inv[p] EXCEPT !.pc = "whist", !.df = rows])
    /\ UNCHANGED <<envvars, clockvars, lock, filevars, dbvars, histvars>>

\* _audit_history_sql: the events of one (visit, recipient) pair; the SQL
\* groups by TO_CHAR(VISIT_ID) and LOWER(TRIM(MODIFIED_USER_EMAIL))
EventsOf(A, k, type) ==
    {ev \in A : /\ <<ev.visit_id, LowerTrim(ev.modified_user_email)>> = k
                /\ ev.event_type = type}

\* MIN(CASE WHEN EVENT_TYPE = 'INITIAL_ALERT' THEN SENT_AT END)
FirstInitial_AnyEvent(A, k) ==
    LET at == {ev.sent_at : ev \in EventsOf(A, k, "INITIAL_ALERT")
                                   \cup EventsOf(A, k, "WEEKLY_REMINDER")}
    IN IF at = {} THEN NaT ELSE CHOOSE t \in at : \A u \in at : t <= u

FirstInitial(A, k) ==
    LET at == {ev.sent_at : ev \in EventsOf(A, k, "INITIAL_ALERT")}
    IN IF at = {} THEN NaT ELSE CHOOSE t \in at : \A u \in at : t <= u

\* MAX(CASE WHEN EVENT_TYPE = 'WEEKLY_REMINDER' THEN SENT_AT END)
LastWeekly(A, k) ==
    LET at == {ev.sent_at : ev \in EventsOf(A, k, "WEEKLY_REMINDER")}
    IN IF at = {} THEN NaT ELSE SetMax(at)

\* key = (str(visit_id), str(modifier or "").strip().lower())
WeeklyKey(g) == <<g[1], LowerTrim(IF g[2] = NULL_EMAIL THEN "nan" ELSE g[2])>>

\* dfl.groupby(["visit_id", "modified_user_email"], dropna=False), in key order
WeeklyGroups(rows) == {<<r.visit_id, r.modified_user_email>> : r \in rows}

RECURSIVE WeeklyGroupSeq(_)
WeeklyGroupSeq(G) ==
    IF G = {} THEN <<>>
    ELSE LET g == CHOOSE x \in G : \A y \in G :
                      x = y \/ x[1] < y[1]
                            \/ (x[1] = y[1] /\ EmailOrd(x[2]) < EmailOrd(y[2]))
         IN <<g>> \o WeeklyGroupSeq(G \ {g})

\* query_database(sql, params=...): the rows of the audit table as they are
\* when the statement runs
AuditRows == audit

\* execute_database(INSERT ... SYSTIMESTAMP ...): one more row in the table
ExecuteInsert(ev) == audit' = audit \cup {ev}

\* write_audit_event: the row the weekly job inserts after a reminder
WeeklyEvent(p, g) ==
    [event_type |-> "WEEKLY_REMINDER", visit_id |-> g[1],
     modified_user_email |-> IF g[2] = NULL_EMAIL THEN "nan" ELSE g[2],
     sent_at |-> now,
     job_run_id |-> inv[p].run]

\* variant: the row of the pair's previous reminder is replaced
WriteAuditEvent_Replaces(p, g) ==
    audit' = (audit \ EventsOf(audit, WeeklyKey(g), "WEEKLY_REMINDER"))
                 \cup {WeeklyEvent(p, g)}

\* write_audit_event(...): one INSERT statement
WriteAuditEvent(p, g) == ExecuteInsert(WeeklyEvent(p, g))

\* the audit history query, then now_ts = pd.Timestamp.now() and the groupby
WeeklyHistory(p) ==
    /\ inv[p].pc = "whist"
    /\ \/ Raise(p, "query")
       \/ Set(p, [inv[p] EXCEPT !.pc = "wloop", !.hist = AuditRows,
                                !.now_ts = now,
                                !.queue = WeeklyGroupSeq(WeeklyGroups(inv[p].df))])
    /\ UNCHANGED <<envvars, clockvars, lock, filevars, dbvars, histvars>>

\* whether the cadence filter lets the group through: an INITIAL_ALERT at
\* least the interval old, and no reminder younger than the interval
Due_Inclusive(hist, now_ts, k) ==
    /\ FirstInitial(hist, k) # NaT
    /\ ~(now_ts <= FirstInitial(hist, k) + Days(REMINDER_INTERVAL_DAYS))
    /\ ~(LastWeekly(hist, k) # NaT
         /\ now_ts < LastWeekly(hist, k) + Days(REMINDER_INTERVAL_DAYS))

Due_AnyEvent(hist, now_ts, k) ==
    /\ FirstInitial_AnyEvent(hist, k) # NaT
    /\ ~(now_ts < FirstInitial_AnyEvent(hist, k) + Days(REMINDER_INTERVAL_DAYS))
    /\ ~(LastWeekly(hist, k) # NaT
         /\ now_ts < LastWeekly(hist, k) + Days(REMINDER_INTERVAL_DAYS))

Due(hist, now_ts, k) ==
    /\ FirstInitial(hist, k) # NaT
    /\ ~(now_ts < FirstInitial(hist, k) + Days(REMINDER_INTERVAL_DAYS))
    /\ ~(LastWeekly(hist, k) # NaT
         /\ now_ts < LastWeekly(hist, k) + Days(REMINDER_INTERVAL_DAYS))

\* one iteration of the reminder loop: the empty-recipient skip, the cadence
\* filter, send_email and then write_audit_event
WeeklyStep(p) ==
    /\ inv[p].pc = "wloop"
    /\ IF inv[p].queue = <<>>
       THEN Set(p, [inv[p] EXCEPT !.pc = "wcsv"]) /\ UNCHANGED auditvars
       ELSE LET g    == Head(inv[p].queue)
                next == [inv[p] EXCEPT !.queue = Tail(@)]
            IN IF IsFalsy(g[2]) /\ ~dev_mode
               THEN Set(p, next) /\ UNCHANGED auditvars
               ELSE IF ~Due(inv[p].hist, inv[p].now_ts, WeeklyKey(g))
               THEN Set(p, next) /\ UNCHANGED auditvars
               ELSE \/ Raise(p, "send") /\ UNCHANGED auditvars
                    \/ /\ ~SendRejects(g[2])
                       /\ reminders' = reminders \cup
                              {[visit_id |-> g[1], modified_user_email |-> g[2],
                                at |-> now, run |-> inv[p].run]}
                       /\ \/ Raise(p, "persist") /\ UNCHANGED audit
                          \/ /\ WriteAuditEvent(p, g)
                             /\ Set(p, [next EXCEPT !.sent_rows = @ + 1])
    /\ UNCHANGED <<envvars, clockvars, lock, filevars, dbvars,
                   emails, alerts, runSeq, lastEnded, killed>>

\* append_sent_records when reminders were sent
WeeklyCsv(p) ==
    /\ inv[p].pc = "wcsv"
    /\ \/ inv[p].sent_rows > 0 /\ Raise(p, "persist")
       \/ Set(p, [inv[p] EXCEPT !.pc = "finally"])
    /\ UNCHANGED <<envvars, clockvars, lock, filevars, dbvars, histvars>>

\* ------------------------------------- activation-dashboard script: main()
\* .str.replace(r'[\r\n]+', ' ').str.split(r'[;, ]+') over the cells above
DashSplit(cell) ==
    IF cell = "a@x.com; b@y.org" THEN {"a@x.com", "b@y.org"}
    ELSE IF cell = EMAIL_SPELLED THEN {"A@X.COM", ""}
    ELSE {cell}

\* EMAIL_REGEX.match(addr) over the addresses above
EmailRegexMatch(addr) == addr \in {"a@x.com", "A@X.COM", "b@y.org", "c@z.edu"}

\* sorted(recipients): the order of the strings
AddrOrd(a) == IF a = "a@x.com" THEN 1 ELSE IF a = "b@y.org" THEN 2 ELSE 3

RECURSIVE Sorted(_)
Sorted(S) ==
    IF S = {} THEN <<>>
    ELSE LET a == CHOOSE x \in S : \A y \in S : AddrOrd(x) <= AddrOrd(y)
         IN <<a>> \o Sorted(S \ {a})

\* get_email_list(df, 'email_list.csv'): the valid addresses of the cells,
\* stripped and lower-cased, and the valid leadership addresses if the file
\* can be read
get_email_list(cells, lead) ==
    LET parts == UNION {DashSplit(c) : c \in cells}
        fromDf == {LowerTrim(a) : a \in {x \in parts : LowerTrim(x) # ""
                                                       /\ EmailRegexMatch(LowerTrim(x))}}
        fromCsv == IF lead.ok
                   THEN {LowerTrim(a) : a \in {x \in lead.emails : EmailRegexMatch(LowerTrim(x))}}
                   ELSE {}
    IN Sorted(fromDf \cup fromCsv)

DashFrame == UNCHANGED <<job, dev_mode, cfg, active, clockvars, lock, filevars, dbvars, histvars, inv>>

\* df = query_database(sql_query, db_type='postgres'); an exception is logged
\* and main returns
DashQuery ==
    /\ dash.pc = "start"
    /\ \/ dash' = [dash EXCEPT !.pc = "done",
                                !.log = @ \cup {[level |-> "error", what |-> "query or csv"]}]
       \/ dash' = [dash EXCEPT !.pc = "csv"]
    /\ DashFrame

\* save_to_csv(df), in the same try block
DashSaveCsv ==
    /\ dash.pc = "csv"
    /\ \/ dash' = [dash EXCEPT !.pc = "done",
                                !.log = @ \cup {[level |-> "error", what |-> "query or csv"]}]
       \/ dash' = [dash EXCEPT !.pc = "list"]
    /\ DashFrame

\* email_list = get_email_list(df, ...); sent_mail = []
DashEmailList ==
    /\ dash.pc = "list"
    /\ LET l == get_email_list(dash.cells, dash.lead)
       IN dash' = [dash EXCEPT !.pc = "loop", !.email_list = l, !.queue = l]
    /\ DashFrame

\* variant: the first failed send ends the loop
DashSend_StopsOnFail ==
    /\ dash.pc = "loop"
    /\ IF dash.queue = <<>>
       THEN dash' = [dash EXCEPT !.pc = "done"]
       ELSE LET email == Head(dash.queue)
            IN IF \E i \in DOMAIN dash.sent_mail : dash.sent_mail[i] = email
               THEN dash' = [dash EXCEPT !.queue = Tail(@)]
               ELSE \/ dash' = [dash EXCEPT !.queue = Tail(@),
                                           !.attempts = Append(@, email),
                                           !.sent_mail = Append(@, email),
                                           !.log = @ \cup {[level |-> "info", what |-> email]}]
                    \/ dash' = [dash EXCEPT !.pc = "done",
                                           !.attempts = Append(@, email),
                                           !.log = @ \cup {[level |-> "error", what |-> email]}]
    /\ DashFrame

\* one iteration of `for email in email_list`: the sent_mail test, send_email
\* inside its own try block, the log line of either outcome
DashSend ==
    /\ dash.pc = "loop"
    /\ IF dash.queue = <<>>
       THEN dash' = [dash EXCEPT !.pc = "done"]
       ELSE LET email == Head(dash.queue)
            IN IF \E i \in DOMAIN dash.sent_mail : dash.sent_mail[i] = email
               THEN dash' = [dash EXCEPT !.queue = Tail(@)]
               ELSE \/ dash' = [dash EXCEPT !.queue = Tail(@),
                                           !.attempts = Append(@, email),
                                           !.sent_mail = Append(@, email),
                                           !.log = @ \cup {[level |-> "info", what |-> email]}]
                    \/ dash' = [dash EXCEPT !.queue = Tail(@),
                                           !.attempts = Append(@, email),
                                           !.log = @ \cup {[level |-> "error", what |-> email]}]
    /\ DashFrame

\* ------------------------------------------------------------ specification
\* one invocation after the other, each running to its end
Next ==
    \/ TickSmall
    \/ InsertRow
    \/ ResolveRow
    \/ \E p \in active : LockExists(p)
    \/ \E p \in active : LockWrite(p)
    \/ \E p \in active : ReadWindow(p)
    \/ \E p \in active : Query(p)
    \/ \E p \in active : SaveStateEmpty(p)
    \/ \E p \in active : GroupStep(p)
    \/ \E p \in active : SaveSentKeys(p)
    \/ \E p \in active : AppendCsv(p)
    \/ \E p \in active : SaveState(p)
    \/ \E p \in active : FailureAlert(p)
    \/ \E p \in active : ReleaseLock(p)

Spec == Init /\ [][Next]_vars

\* the hourly job, started in either environment from one run to the next
NextModes ==
    \/ SwitchMode
    \/ Next

SpecModes == Init /\ [][NextModes]_vars

\* the runs of the hourly job over a view that only loses rows
NextWindow ==
    \/ TickSmall
    \/ ResolveRow
    \/ \E p \in active : LockExists(p)
    \/ \E p \in active : LockWrite(p)
    \/ \E p \in active : ReadWindow(p)
    \/ \E p \in active : Query(p)
    \/ \E p \in active : SaveStateEmpty(p)
    \/ \E p \in active : GroupStep(p)
    \/ \E p \in active : SaveSentKeys(p)
    \/ \E p \in active : AppendCsv(p)
    \/ \E p \in active : SaveState(p)
    \/ \E p \in active : FailureAlert(p)
    \/ \E p \in active : ReleaseLock(p)

SpecWindow == InitWindow /\ [][NextWindow]_vars

SpecRecipient == InitRecipient /\ [][NextWindow]_vars

\* the runs of the hourly job over a view whose rows become visible late
NextLate ==
    \/ TickSmall
    \/ InsertLate
    \/ \E p \in active : LockExists(p)
    \/ \E p \in active : LockWrite(p)
    \/ \E p \in active : ReadWindow(p)
    \/ \E p \in active : Query(p)
    \/ \E p \in active : SaveStateEmpty(p)
    \/ \E p \in active : GroupStep(p)
    \/ \E p \in active : SaveSentKeys(p)
    \/ \E p \in active : AppendCsv(p)
    \/ \E p \in active : SaveState(p)
    \/ \E p \in active : FailureAlert(p)
    \/ \E p \in active : ReleaseLock(p)

SpecLate == Init /\ [][NextLate]_vars

\* the weekly job, one invocation after the other, weeks apart
NextWeekly ==
    \/ TickWeek
    \/ ResolveRow
    \/ \E p \in active : LockExists(p)
    \/ \E p \in active : LockWrite(p)
    \/ \E p \in active : WeeklyQuery(p)
    \/ \E p \in active : WeeklyHistory(p)
    \/ \E p \in active : WeeklyStep(p)
    \/ \E p \in active : WeeklyCsv(p)
    \/ \E p \in active : FailureAlert(p)
    \/ \E p \in active : ReleaseLock(p)

SpecWeekly == InitWeekly /\ [][NextWeekly]_vars

\* one run of the activation-dashboard script
NextDash ==
    \/ DashQuery
    \/ DashSaveCsv
    \/ DashEmailList
    \/ DashSend

SpecDash == InitDash /\ [][NextDash]_vars

\* the weekly job over rows that spell one recipient in two ways
SpecSpelling == InitSpelling /\ [][NextWeekly]_vars

\* the hourly job with save_sent_keys keeping SmallKeep keys, so that the
\* cap is reached by the few keys of a few runs
NextKeys ==
    \/ TickSmall
    \/ InsertRow
    \/ \E p \in active : LockExists(p)
    \/ \E p \in active : LockWrite(p)
    \/ \E p \in active : ReadWindow(p)
    \/ \E p \in active : Query(p)
    \/ \E p \in active : SaveStateEmpty(p)
    \/ \E p \in active : GroupStep(p)
    \/ \E p \in active : SaveSentKeysN(p, SmallKeep)
    \/ \E p \in active : AppendCsv(p)
    \/ \E p \in active : SaveState(p)
    \/ \E p \in active : FailureAlert(p)
    \/ \E p \in active : ReleaseLock(p)

SpecKeys == Init /\ [][NextKeys]_vars

\* overlapping invocations of either job, long pauses and killed processes
NextLock ==
    \/ TickBig
    \/ ResolveRow
    \/ \E p \in active : LockExists(p)
    \/ \E p \in active : LockStat(p)
    \/ \E p \in active : LockWrite(p)
    \/ \E p \in active : ReadWindow(p)
    \/ \E p \in active : Query(p)
    \/ \E p \in active : SaveStateEmpty(p)
    \/ \E p \in active : GroupStep(p)
    \/ \E p \in active : SaveSentKeys(p)
    \/ \E p \in active : AppendCsv(p)
    \/ \E p \in active : SaveState(p)
    \/ \E p \in active : WeeklyQuery(p)
    \/ \E p \in active : WeeklyHistory(p)
    \/ \E p \in active : WeeklyStep(p)
    \/ \E p \in active : WeeklyCsv(p)
    \/ \E p \in active : FailureAlert(p)
    \/ \E p \in active : ReleaseLock(p)
    \/ \E p \in active : Kill(p)

SpecLock == InitLock /\ [][NextLock]_vars

\* The scheduler keeps triggering the job (cron fires it every hour or every
\* week), and a process that was started carries out its lock check and its
\* lock write.
Fairness ==
    /\ WF_vars(\E p \in active : LockExists(p))
    /\ \A p \in Invocations : WF_vars(LockStat(p)) /\ WF_vars(LockWrite(p))

\* either job over an empty view, fired again while the previous invocation
\* may still run
InitLive == InitWith(JOBS, Invocations, {{}}, {DefaultCfg})

\* the lock protocol around runs that find nothing to send
NextLive ==
    \/ TickBig
    \/ \E p \in active : LockExists(p)
    \/ \E p \in active : LockStat(p)
    \/ \E p \in active : LockWrite(p)
    \/ \E p \in active : ReadWindow(p)
    \/ \E p \in active : Query(p)
    \/ \E p \in active : SaveStateEmpty(p)
    \/ \E p \in active : WeeklyQuery(p)
    \/ \E p \in active : FailureAlert(p)
    \/ \E p \in active : ReleaseLock(p)
    \/ \E p \in active : Kill(p)

SpecLive == InitLive /\ [][NextLive]_vars /\ Fairness

\* ================================================================== claims
\* an invocation that has passed its last write and has no exception pending:
\* what remains of the run is the release of the lock
Succeeded(p) == inv[p].pc = "finally" /\ ~inv[p].exc

\* the largest modified_date of the rows a run was given
MaxSeen(p) == SetMax({r.modified_date : r \in inv[p].df})

\* C1: when two consecutive hourly runs are given the same rows, a group
\* emailed by the first run is not emailed again by the second: no email
\* repeats the key of an email sent by the run that ended just before the
\* sending run started.
C1_ConsecutiveRunsSendOnce ==
    \A e1 \in emails, e2 \in emails :
        e1.key = e2.key => e2.prev # e1.run

\* C2: over any sequence of hourly runs, failed and retried ones included,
\* at most one email is sent for every idempotency key.
C2_AtMostOncePerKey ==
    \A e1 \in emails, e2 \in emails :
        e1.key = e2.key => e1 = e2

\* C3: a run that completes successfully leaves a watermark that is not
\* earlier than the watermark it loaded at its start.
C3_WatermarkMonotone ==
    \A p \in Invocations :
        (job = "hourly" /\ Succeeded(p) /\ inv[p].state # NoMark)
            => inv[p].new_mark >= inv[p].state

\* C4 as stated: after a successful run the watermark is at most until; it
\* is min(max row timestamp, until) on rows and until on no rows.
C4_WatermarkIsMinOrUntil ==
    \A p \in Invocations :
        (job = "hourly" /\ Succeeded(p)) =>
            /\ inv[p].new_mark <= inv[p].until
            /\ inv[p].new_mark =
                  IF inv[p].df = {} THEN inv[p].until
                  ELSE Min2(MaxSeen(p), inv[p].until)

\* C4 as amended: the watermark written is that value with its sub-second
\* part dropped, so it is at most until and never past the upper bound.
C4_WatermarkCapped ==
    \A p \in Invocations :
        (job = "hourly" /\ Succeeded(p)) =>
            LET exact == IF inv[p].df = {} THEN inv[p].until
                         ELSE Min2(MaxSeen(p), inv[p].until)
            IN /\ inv[p].new_mark <= inv[p].until
               /\ inv[p].new_mark = exact - (exact % TicksPerSec)

\* a successful run with rows whose newest row is older than until, and a
\* successful run without rows at an until that is not a whole second
C4_Witness ==
    /\ \E p \in Invocations :
          /\ Succeeded(p)
          /\ inv[p].df # {}
          /\ MaxSeen(p) < inv[p].until - Minutes(1)
          /\ inv[p].new_mark = MaxSeen(p)
    /\ stateFile[spath] # NoMark

\* the window of a run has been computed and its query is about to be sent
WindowComputed(p) == job = "hourly" /\ inv[p].pc = "query"

WindowValid(p) ==
    /\ inv[p].since < inv[p].until
    /\ inv[p].until < inv[p].t0
    /\ inv[p].until <= inv[p].t0 - Minutes(cfg.lag)

\* C5 as stated: for every invocation time, every safety lag, overlap and
\* lookback setting and every persisted watermark (or none), the window has
\* since < until, until < now and until <= now - safety_lag.
C5_WindowValidAnySetting ==
    \A p \in Invocations : WindowComputed(p) => WindowValid(p)

\* C5 as amended: the same, for every safety lag, every overlap of at least
\* one minute and every lookback of at least zero hours.
C5_WindowValid ==
    \A p \in Invocations :
        (WindowComputed(p) /\ cfg.overlap >= 1 /\ cfg.lookback >= 0) => WindowValid(p)

\* a run under a non-positive safety lag and a lookback of zero hours that
\* starts from a persisted watermark: its upper bound is now - 1 minute
C5_Witness ==
    \E p \in Invocations :
        /\ WindowComputed(p)
        /\ cfg.lag <= 0 /\ cfg.overlap >= 1 /\ cfg.lookback = 0
        /\ inv[p].state # NoMark
        /\ inv[p].until = inv[p].t0 - Minutes(1)

\* the threshold below which a marker counts as the sign of an active run
Threshold == Hours(IF job = "hourly" THEN 2 ELSE 4)

\* the invocation is inside the try block: between the write of its marker
\* and the finally clause
InProtected(p) ==
    inv[p].pc \in {"window", "query", "empty_save", "loop", "csv", "save_state",
                   "wquery", "whist", "wloop", "wcsv", "except"}

\* invocation p takes a step of its own
Steps(p) == inv'[p] # inv[p]

\* C6: under any interleaving of the invocations of one job, at most one
\* invocation at a time is inside the protected region.
C6_MutualExclusion ==
    \A p \in Invocations, q \in Invocations :
        (InProtected(p) /\ InProtected(q)) => p = q

\* C7: a run that finds the marker with an age below the threshold of its job
\* returns normally at once: it neither queries nor raises, sends no email
\* and no failure alert, leaves the watermark and the sent-key file as they
\* are, and neither rewrites nor deletes the marker.
C7_FreshLockSkips ==
    [][\A p \in Invocations :
          (inv[p].pc = "stat" /\ Steps(p) /\ lock.exists /\ now - lock.mtime < Threshold)
              => /\ inv'[p] = Idle("skipped")
                 /\ lock' = lock
                 /\ stateFile' = stateFile /\ keysFile' = keysFile
                 /\ emails' = emails /\ alerts' = alerts]_vars

\* a run has been skipped on a marker one tick younger than the threshold,
\* which is therefore still there
C7_Witness ==
    \E p \in Invocations :
        /\ inv[p].outcome = "skipped"
        /\ lock.exists
        /\ now - lock.mtime = Threshold - 1

\* C8: a run that finds the marker with an age of at least the threshold goes
\* on to write the marker; its write leaves a marker that carries the time of
\* the write and belongs to the run, and the run enters the pipeline.
C8_StaleLockTakenOver ==
    [][\A p \in Invocations :
          /\ (inv[p].pc = "stat" /\ Steps(p) /\ lock.exists /\ now - lock.mtime >= Threshold)
                => (inv'[p].pc = "write_lock" /\ inv'[p].stale > 0 /\ lock' = lock)
          /\ (inv[p].pc = "write_lock" /\ inv[p].stale > 0 /\ Steps(p))
                => /\ lock' = [exists |-> TRUE, mtime |-> now, owner |-> inv'[p].run]
                   /\ inv'[p].run > 0
                   /\ inv'[p].pc = IF job = "hourly" THEN "window" ELSE "wquery"]_vars

\* a run took over a marker exactly as old as the threshold and has gone
\* through its pipeline under a marker of its own
C8_Witness ==
    \E p \in Invocations :
        /\ inv[p].stale > 0
        /\ inv[p].pc = "finally" /\ ~inv[p].exc
        /\ lock.exists /\ lock.owner = inv[p].run /\ lock.mtime = Now0 + Threshold

Orphaned == lock.exists /\ lock.owner \in killed

\* C10: when a killed run has left its marker behind and the scheduler keeps
\* triggering the job, then once the age of the marker has reached the
\* threshold a later run writes the marker and enters the pipeline.
C10_NoPermanentLockout ==
    \A n \in 0..(MaxRuns - 1) :
        (Orphaned /\ now - lock.mtime >= Threshold /\ runSeq = n) ~> (runSeq > n)

\* a run found the marker of a killed run stale and is in the pipeline
C10_Witness ==
    \E p \in Invocations :
        /\ inv[p].stale \in killed
        /\ InProtected(p)
        /\ lock.owner = inv[p].run

\* the elements of a sequence
Range(q) == {q[i] : i \in 1..Len(q)}

\* the query of invocation p returns
QueryReturns(p) == inv[p].pc = "query" /\ inv'[p].pc \in {"loop", "empty_save"}

\* what a run that started from a persisted watermark is given by its query:
\* its lower bound is the watermark minus the overlap, and every row of the
\* view between that bound and upper is in the result and in the groups
GivenUpTo(p, upper) ==
    /\ inv[p].since = inv[p].state - Minutes(cfg.overlap)
    /\ inv[p].since < inv[p].state
    /\ \A r \in db :
          (r.modified_date > inv[p].state - Minutes(cfg.overlap)
              /\ r.modified_date <= upper)
          => (r \in inv'[p].df /\ GroupKey(r) \in Range(inv'[p].queue))

\* C11 as stated: a run that follows a successful run, under a positive
\* overlap, is given every visible row with a timestamp in
\* (watermark - overlap, until], rows at the previous watermark included.
C11_NoGapUpToUntil ==
    [][\A p \in Invocations :
          (QueryReturns(p) /\ inv[p].state # NoMark /\ cfg.overlap > 0)
              => GivenUpTo(p, inv[p].until)]_vars

\* C11 as amended: the same, up to until truncated to whole seconds.
C11_NoGapUpToSecond ==
    [][\A p \in Invocations :
          (QueryReturns(p) /\ inv[p].state # NoMark /\ cfg.overlap > 0)
              => GivenUpTo(p, inv[p].until - (inv[p].until % TicksPerSec))]_vars

\* a run is given again the row whose timestamp is the watermark it loaded
C11_Witness ==
    \E p \in Invocations :
        /\ inv[p].pc = "loop"
        /\ inv[p].state # NoMark
        /\ \E r \in inv[p].df : r.modified_date = inv[p].state

\* the row is one the job sends an email for
Deliverable(r) == r.modified_user_email \notin {"", NULL_EMAIL} \/ dev_mode

\* an email with the key of the row has been sent
Notified(r) == \E e \in emails : e.key = DedupeKey(GroupKey(r))

\* the row is above the lower bound of the window of the next run
AboveNextSince(r) ==
    \/ stateFile[spath] = NoMark
    \/ r.modified_date > stateFile[spath] - Minutes(cfg.overlap)

AtEmptyRecipient(p) ==
    /\ job = "hourly"
    /\ inv[p].pc = "loop" /\ inv[p].queue # <<>>
    /\ Head(inv[p].queue)[2] \in {"", NULL_EMAIL}

\* C13: in production a group whose recipient is the empty string or NULL
\* is not sent and is no failure: the run goes on with the next group; in
\* development the group is not skipped for its recipient: unless its key
\* was sent before, its email is dispatched (or the dispatch fails).
C13_EmptyRecipientRule ==
    [][\A p \in Invocations :
          (AtEmptyRecipient(p) /\ Steps(p)) =>
              IF ~dev_mode
              THEN /\ inv'[p] = [inv[p] EXCEPT !.queue = Tail(@)]
                   /\ emails' = emails
              ELSE DedupeKey(Head(inv[p].queue)) \notin inv[p].sent_keys
                      => (emails' # emails \/ inv'[p].exc)]_vars

\* the audit table holds an INITIAL_ALERT for the pair
HasInitialAlert(visit, email) ==
    \E ev \in audit : /\ ev.event_type = "INITIAL_ALERT"
                      /\ ev.visit_id = visit
                      /\ ev.modified_user_email = email

\* C14: no reminder is ever sent for a (visit, recipient) pair that has no
\* INITIAL_ALERT event in the audit table, whatever time has passed and
\* whether or not the table holds WEEKLY_REMINDER events for the pair.
C14_ReminderNeedsInitialAlert ==
    \A r \in reminders : HasInitialAlert(r.visit_id, r.modified_user_email)

\* a weekly run has gone through its loop, more than an interval after the
\* only event of the pair of Row0, a WEEKLY_REMINDER, and sent nothing
C14_Witness ==
    /\ audit = {Weekly0}
    /\ \E p \in active :
          /\ inv[p].pc = "wcsv"
          /\ Row0 \in inv[p].df
          /\ inv[p].now_ts > Weekly0.sent_at + Days(REMINDER_INTERVAL_DAYS)
    /\ reminders = {}

\* invocation p of the weekly job is about to handle a group that has a
\* recipient to send to
AtReminderGroup(p) ==
    /\ inv[p].pc = "wloop" /\ inv[p].queue # <<>>
    /\ ~(IsFalsy(Head(inv[p].queue)[2]) /\ ~dev_mode)

\* the step of p dispatches a reminder, or fails doing so
ReminderDispatched(p) ==
    \/ \E r \in reminders' \ reminders :
          /\ r.visit_id = Head(inv[p].queue)[1]
          /\ r.modified_user_email = Head(inv[p].queue)[2]
    \/ inv'[p].exc /\ inv'[p].err = "send"

\* C15: for an unresolved pair with an INITIAL_ALERT and no WEEKLY_REMINDER
\* in the audit table, a weekly run that reads the clock at now_ts dispatches
\* a reminder if and only if now_ts >= first_initial_sent_at + interval days:
\* not an instant before, and at that very instant.
C15_ReminderBoundary ==
    [][\A p \in Invocations :
          LET k == WeeklyKey(Head(inv[p].queue))
          IN (/\ AtReminderGroup(p) /\ Steps(p)
              /\ HasInitialAlert(k[1], k[2])
              /\ EventsOf(audit, k, "WEEKLY_REMINDER") = {})
             => IF inv[p].now_ts >= FirstInitial(audit, k)
                                        + Days(REMINDER_INTERVAL_DAYS)
                THEN ReminderDispatched(p)
                ELSE reminders' = reminders]_vars

\* the second run, an instant after the first, sent the reminder at exactly
\* first_initial_sent_at + interval days
C15_Witness ==
    /\ Initial0 \in audit
    /\ \E p \in active :
          /\ inv[p].pc = "wcsv" /\ inv[p].run = 2
          /\ inv[p].now_ts = Initial0.sent_at + Days(REMINDER_INTERVAL_DAYS)
          /\ \E r \in reminders : r.run = 2 /\ r.at = inv[p].now_ts

\* C16: any two reminder emails sent for the same (visit, recipient) pair,
\* by whatever weekly runs, are at least interval days apart.
C16_MinimumCadence ==
    \A r1 \in reminders, r2 \in reminders :
        (/\ r1 # r2
         /\ r1.visit_id = r2.visit_id
         /\ r1.modified_user_email = r2.modified_user_email
         /\ r1.at <= r2.at)
        => r2.at - r1.at >= Days(REMINDER_INTERVAL_DAYS)

\* C17: when a run of the hourly job releases the lock, the audit table holds
\* an INITIAL_ALERT event for the (visit, recipient) of every notification
\* email the run sent.
C17_HourlyNotificationAudited ==
    [][\A p \in Invocations :
          (job = "hourly" /\ inv[p].pc = "finally" /\ inv'[p].pc = "idle")
          => \A e \in emails :
                e.run = inv[p].run => HasInitialAlert(e.key[1], e.key[2])]_vars

\* the times at which the pair of group g was notified or reminded
NotifiedAt(g) == {e.at : e \in {x \in emails : x.key[1] = g[1] /\ x.key[2] = g[2]}}
RemindedAt(g) ==
    {r.at : r \in {x \in reminders : /\ x.visit_id = g[1]
                                     /\ x.modified_user_email = g[2]}}

\* C18: when the hourly job has notified a pair and the pair is still in the
\* unresolved result, a weekly run that reads the clock at least interval
\* days after the notification, and at least interval days after the last
\* reminder if there is one, dispatches a reminder for the pair, however
\* long ago the previous weekly run was.
C18_ReminderAfterMissedRuns ==
    [][\A p \in Invocations :
          LET g == Head(inv[p].queue)
          IN (/\ AtReminderGroup(p) /\ Steps(p)
              /\ NotifiedAt(g) # {}
              /\ \A t \in NotifiedAt(g) \cup RemindedAt(g) :
                    inv[p].now_ts >= t + Days(REMINDER_INTERVAL_DAYS))
             => ReminderDispatched(p)]_vars

\* C19: an exception raised inside the try block is the exception the run
\* ends with: the except clause goes on to the finally clause with the same
\* exception pending whether or not the failure alert was delivered, and the
\* run then terminates by raising it.
C19_OriginalErrorSurfaces ==
    [][\A p \in Invocations :
          /\ (InProtected(p) /\ inv[p].pc # "except" /\ ~inv[p].exc /\ inv'[p].exc)
                => (inv'[p].pc = "except" /\ inv'[p].err # "none")
          /\ (inv[p].pc = "except" /\ Steps(p))
                => (inv'[p].pc = "finally" /\ inv'[p].exc /\ inv'[p].err = inv[p].err)
          /\ (inv[p].pc = "finally" /\ inv[p].exc /\ Steps(p))
                => /\ inv'[p].pc = "idle" /\ inv'[p].outcome = "raised"
                   /\ inv'[p].err = inv[p].err]_vars

\* run 1 failed and its alert was delivered; run 2 failed on writing state,
\* its alert was not delivered, and it has raised that failure
C19_Witness ==
    \E p \in Invocations :
        /\ inv[p].pc = "idle" /\ inv[p].outcome = "raised" /\ inv[p].err = "persist"
        /\ lastEnded = MaxRuns
        /\ alerts = {1}

\* C20: when the send of a group fails, the run stops handling groups: it
\* sends no further email, writes neither the sent-key file nor the
\* watermark, which are still as the run loaded them, and ends by raising.
C20_SendFailureAborts ==
    [][\A p \in Invocations :
          /\ (inv[p].pc = "loop" /\ inv'[p].exc /\ inv[p].queue # <<>>)
                => /\ inv'[p].pc = "except" /\ inv'[p].err = "send"
                   /\ emails' = emails
                   /\ stateFile' = stateFile /\ keysFile' = keysFile
                   /\ stateFile[spath] = inv[p].state
                   /\ keysFile[spath] \subseteq inv[p].sent_keys
          /\ (inv[p].err = "send" /\ inv[p].pc \in {"except", "finally"} /\ Steps(p))
                => /\ emails' = emails
                   /\ stateFile' = stateFile /\ keysFile' = keysFile
                   /\ inv'[p].pc \in {"finally", "idle"}
                   /\ inv'[p].pc = "idle" => inv'[p].outcome = "raised"]_vars

\* a run sent the email of one group, failed to send the next, and has ended
\* by raising; no file has been written
C20_Witness ==
    \E p \in Invocations :
        /\ inv[p].pc = "idle" /\ inv[p].outcome = "raised" /\ inv[p].err = "send"
        /\ \E e \in emails : e.run = lastEnded
        /\ Cardinality(db) > 1
        /\ stateFile[spath] = NoMark /\ keysFile[spath] = {}

\* the step that follows an empty query result, and what the claim says of
\* it whatever the watermark it writes
AtEmptyResult(p) == job = "hourly" /\ inv[p].pc = "empty_save" /\ Steps(p)
NothingSent(p) ==
    /\ emails' = emails /\ alerts' = alerts /\ keysFile' = keysFile
    /\ \A e \in emails : e.run # inv[p].run

\* C21: when the window query returns no rows the run sends no email, sets
\* the persisted watermark to its until, leaves the sent-key file as it is,
\* raises no error and sends no failure alert.
C21_EmptyWindowSucceeds ==
    [][\A p \in Invocations :
          AtEmptyResult(p)
          => /\ NothingSent(p)
             /\ stateFile'[spath] = inv[p].until
             /\ inv'[p].pc = "finally" /\ ~inv'[p].exc]_vars

\* C21 as the code has it: the watermark written is until truncated to the
\* whole second, and the run raises only when that write fails, in which
\* case the state file is as it was.
C21_EmptyWindowTruncated ==
    [][\A p \in Invocations :
          AtEmptyResult(p)
          => /\ NothingSent(p)
             /\ \/ /\ stateFile'[spath] = TruncSec(inv[p].until)
                   /\ inv'[p].pc = "finally" /\ ~inv'[p].exc
                \/ /\ stateFile' = stateFile
                   /\ inv'[p].pc = "except" /\ inv'[p].err = "persist"]_vars

\* a run without rows, at an until that is not a whole second, has written
\* the watermark and has only the lock left to release
C21_Witness ==
    \E p \in Invocations :
        /\ Succeeded(p) /\ inv[p].df = {}
        /\ inv[p].until % TicksPerSec # 0
        /\ stateFile[spath] = TruncSec(inv[p].until)
        /\ keysFile[spath] = {} /\ emails = {} /\ alerts = {}

\* the keys of the emails run p sent are in the sent-key file; the run has
\* written its watermark
RunKeys(p) == {e.key : e \in {x \in emails : x.run = inv[p].run}}
KeysDurable(p) == RunKeys(p) \subseteq keysFile[spath]
MarkDurable(p) == inv[p].new_mark # NoMark /\ stateFile[spath] = inv[p].new_mark

\* C22: when a run that sent emails is over, whether it failed or not, the
\* sent-key file holds the keys of its sends if and only if the state file
\* holds its new watermark.
C22_KeysAndMarkTogether ==
    \A p \in Invocations :
        (job = "hourly" /\ inv[p].pc = "finally" /\ RunKeys(p) # {})
        => (KeysDurable(p) <=> MarkDurable(p))

\* the keys run p adds to the set it loaded from the sent-key file
AddedKeys(p) == inv[p].sent_keys \ keysFile[spath]

\* run p writes the sent-key file
SavesKeys(p) == inv[p].pc = "loop" /\ inv'[p].pc = "csv"

\* C23: a save that has to drop keys keeps every key the saving run added,
\* as long as the run added no more keys than the cap.
C23_NewestKeysKept ==
    [][\A p \in Invocations :
          (SavesKeys(p) /\ Cardinality(AddedKeys(p)) <= SmallKeep)
          => AddedKeys(p) \subseteq keysFile'[spath]]_vars

\* C24: the sent-key file never holds more keys than the cap.
C24_KeyFileCapped ==
    \A s \in StatePaths : Cardinality(keysFile[s]) <= SmallKeep

\* a run whose key set was larger than the cap has written the file
C24_Witness ==
    \E p \in Invocations :
        /\ inv[p].pc = "csv"
        /\ Cardinality(inv[p].sent_keys) > SmallKeep
        /\ Cardinality(keysFile[spath]) = SmallKeep

\* the triples of the result of run p that have a recipient and whose key no
\* earlier run sent
Eligible(p) ==
    {g \in Groups(inv[p].df) :
        /\ g[2] \notin {"", NULL_EMAIL}
        /\ \A e \in emails : e.run # inv[p].run => e.key # DedupeKey(g)}

\* the emails run p sent for those triples
SentFor(p) ==
    {e \in emails : e.run = inv[p].run /\ \E g \in Eligible(p) : e.key = DedupeKey(g)}

\* C25: a successful hourly run has sent exactly one email for every triple
\* (visit_id, modified_user_email, modified_date) of its result that has a
\* recipient and was not notified before: as many emails as such triples.
C25_OneEmailPerGroup ==
    \A p \in Invocations :
        (job = "hourly" /\ Succeeded(p) /\ inv[p].df # {})
        => Cardinality(SentFor(p)) = Cardinality(Eligible(p))

\* the window of p was computed without a persisted watermark
ColdStart(p) == WindowComputed(p) /\ inv[p].state = NoMark

\* the worked example: a run at 10:00:00 under the default settings has the
\* window (08:47, 09:50]
ColdStartExample(p) ==
    (inv[p].t0 = Hours(10) /\ cfg = DefaultCfg)
    => /\ inv[p].since = Hours(8) + Minutes(47)
       /\ inv[p].until = Hours(9) + Minutes(50)

\* C26: on cold start until = now - safety_lag and since = until - lookback
\* - overlap, whatever the settings; at 10:00:00 with lookback 1 h, lag 10
\* min and overlap 3 min the window is (08:47, 09:50].
C26_ColdStartWindow ==
    \A p \in Invocations :
        ColdStart(p)
        => /\ inv[p].until = inv[p].t0 - Minutes(cfg.lag)
           /\ inv[p].since = inv[p].until - Hours(cfg.lookback) - Minutes(cfg.overlap)
           /\ ColdStartExample(p)

\* C26 with the guard of the code: with a safety lag of zero or less, until
\* is one minute before now.
C26_ColdStartWindowPositiveLag ==
    \A p \in Invocations :
        ColdStart(p)
        => /\ inv[p].until = inv[p].t0 - Minutes(IF cfg.lag > 0 THEN cfg.lag ELSE 1)
           /\ inv[p].since = inv[p].until - Hours(cfg.lookback) - Minutes(cfg.overlap)
           /\ ColdStartExample(p)

\* the run of the example has computed its window
C26_Witness ==
    \E p \in Invocations :
        /\ ColdStart(p) /\ inv[p].t0 = Hours(10) /\ cfg = DefaultCfg
        /\ inv[p].since = Hours(8) + Minutes(47)
        /\ inv[p].until = Hours(9) + Minutes(50)

\* C27: no step of either job modifies or removes an audit event: every
\* event of the table is still in the table after the step.
C27_AuditAppendOnly == [][audit \subseteq audit']_vars

\* the table holds the reminder event it started with and a later one of
\* the same pair
C27_Witness ==
    /\ Initial0 \in audit /\ Weekly0 \in audit
    /\ \E ev \in EventsOf(audit, <<Row0.visit_id, Row0.modified_user_email>>,
                          "WEEKLY_REMINDER") : ev.sent_at > Weekly0.sent_at

\* C28: every reminder email sent has its WEEKLY_REMINDER audit event,
\* written by the same run for the same (visit, recipient), by the time the
\* run turns to the next group.
C28_ReminderHasAuditEvent ==
    \A r \in reminders :
        \E ev \in audit :
            /\ ev.event_type = "WEEKLY_REMINDER"
            /\ ev.visit_id = r.visit_id
            /\ ev.modified_user_email = WeeklyKey(<<r.visit_id, r.modified_user_email>>)[2]
            /\ ev.job_run_id = r.run

\* run p of a fresh deployment (no state file, no sent-key file, no
\* directory for them) has sent its emails and is about to persist the keys
ColdStartAfterSends(p) ==
    /\ job = "hourly" /\ inv[p].pc = "loop" /\ inv[p].queue = <<>>
    /\ inv[p].sent_rows > 0
    /\ ~dirExists[spath] /\ stateFile[spath] = NoMark /\ keysFile[spath] = {}

\* C29: the first run of a fresh deployment that sent emails goes on to
\* persist the keys of its sends, without raising.
C29_ColdStartCompletes ==
    [][\A p \in Invocations :
          (ColdStartAfterSends(p) /\ Steps(p))
          => /\ ~inv'[p].exc
             /\ RunKeys(p) \subseteq keysFile'[spath]]_vars

\* C30: the state file is written only by the last step of a run that has
\* no exception, the step that leaves only the lock to release; and a run
\* that ends by raising leaves the watermark it read at its start.
C30_WatermarkOnlyOnSuccess ==
    [][\A p \in Invocations :
          /\ (Steps(p) /\ stateFile' # stateFile)
                => /\ inv[p].pc \in {"empty_save", "save_state"}
                   /\ inv'[p].pc = "finally" /\ ~inv'[p].exc
          /\ (job = "hourly" /\ inv[p].pc = "finally" /\ inv[p].exc /\ Steps(p))
                => /\ stateFile' = stateFile
                   /\ stateFile[spath] = inv[p].state]_vars

\* a run that read a watermark written by an earlier run sent an email,
\* failed afterwards, and is about to end with the watermark as it read it
C30_Witness ==
    \E p \in Invocations :
        /\ job = "hourly" /\ inv[p].pc = "finally" /\ inv[p].exc
        /\ inv[p].state # NoMark /\ stateFile[spath] = inv[p].state
        /\ RunKeys(p) # {}

\* C31: a run that fails inside the protected region attempts its failure
\* alert while the lock marker exists, and only the step after the attempt,
\* the finally clause, deletes the marker: the run enters the finally clause
\* with an exception pending from the except clause only.
C31_AlertBeforeRelease ==
    [][\A p \in Invocations :
          /\ (inv[p].pc = "except" /\ Steps(p) /\ inv'[p].outcome # "killed")
                => (lock.exists /\ lock'.exists /\ inv'[p].pc = "finally")
          /\ (inv'[p].pc = "finally" /\ inv'[p].exc /\ Steps(p))
                => inv[p].pc = "except"]_vars

\* C32: a run that deletes the marker on exit deletes the marker it wrote:
\* the marker on disk at that moment belongs to the run.
C32_ReleasesOwnLock ==
    [][\A p \in Invocations :
          (inv[p].pc = "finally" /\ lock.exists /\ ~lock'.exists)
          => lock.owner = inv[p].run]_vars

C34_OneReminderPerPair ==
    \A r1 \in reminders, r2 \in reminders :
        (/\ r1.run = r2.run
         /\ WeeklyKey(<<r1.visit_id, r1.modified_user_email>>)
               = WeeklyKey(<<r2.visit_id, r2.modified_user_email>>))
        => r1 = r2

\* C35: a run reads its watermark and its sent keys from the files of its own
\* environment, and no step changes the state directory, the watermark or the
\* sent-key file of the other environment.
C35_EnvironmentsSeparate ==
    [][LET own   == IF dev_mode THEN "dev" ELSE "prod"
           other == IF dev_mode THEN "prod" ELSE "dev"
       IN /\ dev_mode' = dev_mode =>
                /\ stateFile'[other] = stateFile[other]
                /\ keysFile'[other] = keysFile[other]
                /\ dirExists'[other] = dirExists[other]
          /\ \A p \in Invocations :
                /\ (inv[p].pc = "window" /\ inv'[p].pc = "query")
                      => inv'[p].state = stateFile[own]
                /\ (inv[p].pc = "query" /\ inv'[p].pc = "loop")
                      => inv'[p].sent_keys = keysFile[own]]_vars

\* a development run has written its watermark and its keys while production
\* has none, and a production run has then read the production files
C35_Witness ==
    /\ stateFile["dev"] # NoMark
    /\ keysFile["dev"] # {}
    /\ stateFile["prod"] = NoMark
    /\ keysFile["prod"] = {}
    /\ ~dev_mode
    /\ \E p \in Invocations : inv[p].pc = "loop" /\ inv[p].run = 2

\* the dashboard run logged the failure of its query or of its CSV save
DashAborted == [level |-> "error", what |-> "query or csv"] \in dash.log

\* C36: in a run of the activation-dashboard script the recipient list holds
\* no address twice and no address is attempted twice; a run whose query and
\* CSV save succeeded has attempted every address of the list by its end, the
\* failed ones being logged; a run whose query or CSV save failed has attempted
\* none.
C36_DashboardIsolation ==
    /\ \A i \in DOMAIN dash.email_list, j \in DOMAIN dash.email_list :
          dash.email_list[i] = dash.email_list[j] => i = j
    /\ \A i \in DOMAIN dash.attempts, j \in DOMAIN dash.attempts :
          dash.attempts[i] = dash.attempts[j] => i = j
    /\ Range(dash.attempts) \subseteq Range(dash.email_list)
    /\ (dash.pc = "done" /\ ~DashAborted) =>
          /\ Range(dash.attempts) = Range(dash.email_list)
          /\ \A a \in Range(dash.attempts) \ Range(dash.sent_mail) :
                [level |-> "error", what |-> a] \in dash.log
    /\ DashAborted => dash.attempts = <<>>

\* a run over cells that spell one address in two ways: the send to the first
\* address of the list failed, the send to the second succeeded
C36_Witness ==
    /\ dash.pc = "done"
    /\ {"a@x.com", EMAIL_SPELLED} \subseteq dash.cells
    /\ Len(dash.attempts) >= 2
    /\ dash.attempts[1] \notin Range(dash.sent_mail)
    /\ dash.attempts[2] \in Range(dash.sent_mail)

====
